---- MODULE Spec2Model ----
(***************************************************************************)
(* nilearn/_utils/ndimage.py: largest_connected_component and              *)
(* _peak_local_max, as state machines over bounded grids.                  *)
(*                                                                         *)
(* largest_connected_component is run on 2-D volumes of LRows x LCols      *)
(* cells, _peak_local_max on 1-D images of ImgLen cells.  Arrays live in a *)
(* heap of references so that aliasing (np.asarray returns its argument,   *)
(* image.copy() does not) is visible.                                      *)
(***************************************************************************)
EXTENDS Integers, Sequences, FiniteSets

(* ---------------------------- bounds ----------------------------------- *)
\* a volume has LRows x LCols cells
LRows == 2
LCols == 3
\* an image has ImgLen cells, holding -1 .. MaxVal
ImgLen == 4
MaxVal == 2

VARIABLES pc, op, kind, heap, arg0, params, coerced, labelled,
          labels, label_nb, outcome, result, first

vars == <<pc, op, kind, heap, arg0, params, coerced, labelled,
          labels, label_nb, outcome, result, first>>

(* ------------------------- generic helpers ----------------------------- *)
Max(S) == CHOOSE x \in S : \A y \in S : y <= x

Abs(x) == IF x < 0 THEN -x ELSE x

\* the value of a local that is not bound (yet)
None == <<>>

(* ------------------- largest_connected_component ----------------------- *)
\* index space of a volume
Cells == (0 .. LRows - 1) \X (0 .. LCols - 1)

\* the volumes a caller can hold ("3D boolean array")
Volumes == [Cells -> {0, 1}]

\* what the caller passes: a numpy array, an image object (has get_data),
\* a path string, a nested list, a numpy masked array
Kinds == {"ndarray", "niimg", "str", "list", "masked"}

\* hasattr(volume, "get_data")
HasGetData(k) == k = "niimg"

\* isinstance(volume, _basestring)
IsBaseString(k) == k = "str"

RejectsOnlyImages(k) == HasGetData(k)

\* the guard of the first raise
IsRejected(k) == HasGetData(k) \/ IsBaseString(k)

\* np.asarray: an ndarray is returned as is (same reference), anything else
\* is converted into a new array holding the same cells
AsArrayRef(k) == IF k = "ndarray" THEN "arg" ELSE "copy"

FullStructure(a, b) ==
    /\ a # b
    /\ Abs(a[1] - b[1]) <= 1
    /\ Abs(a[2] - b[2]) <= 1

\* ndimage.label(volume) is called without a structure: scipy generates the
\* structuring element of squared connectivity one, which links a cell to
\* the cells at distance 1 along exactly one axis
Structure(a, b) == Abs(a[1] - b[1]) + Abs(a[2] - b[2]) = 1

\* the feature (non-zero) cells linked to the set S through the structure
RECURSIVE Flood(_, _)
Flood(input, S) ==
    LET N == S \cup {d \in Cells : input[d] # 0 /\
                                  \E s \in S : Structure(s, d)}
    IN  IF N = S THEN S ELSE Flood(input, N)

\* the cell at raster (C order) position k
Unravel(k) == <<k \div LCols, k % LCols>>

\* ndimage.label: features are numbered 1, 2, ... in raster order of their
\* first cell; the background keeps 0
RECURSIVE LabelFrom(_, _, _, _)
LabelFrom(input, k, lab, nb) ==
    IF k = LRows * LCols THEN [labels |-> lab, label_nb |-> nb]
    ELSE LET c == Unravel(k)
         IN  IF input[c] # 0 /\ lab[c] = 0
             THEN LET F == Flood(input, {c})
                  IN  LabelFrom(input, k + 1,
                                [d \in Cells |-> IF d \in F THEN nb + 1
                                                 ELSE lab[d]],
                                nb + 1)
             ELSE LabelFrom(input, k + 1, lab, nb)

Label(input) == LabelFrom(input, 0, [d \in Cells |-> 0], 0)

NeverEmpty(nb) == FALSE

\* `not label_nb`
NoLabels(nb) == nb = 0

\* volume.astype(np.bool)
AsBool(a) == [d \in DOMAIN a |-> a[d] # 0]

\* np.bincount(labels.ravel()): one count per value 0 .. max(labels)
BinCount(lab) ==
    [k \in 0 .. Max({lab[d] : d \in Cells}) |->
        Cardinality({d \in Cells : lab[d] = k})]

KeepBackground(count) == count

\* label_count[0] = 0
DiscardBackground(count) == [count EXCEPT ![0] = 0]

\* ndarray.argmax(): the first index holding the maximum
ArgMax(count) ==
    CHOOSE k \in DOMAIN count :
        /\ \A j \in DOMAIN count : count[j] <= count[k]
        /\ \A j \in DOMAIN count : count[j] = count[k] => k <= j

\* the whole of largest_connected_component, from the call to the return
\* or the raise
LargestConnectedComponent ==
    /\ pc = "start"
    /\ op = "largest_connected_component"
    /\ pc' = "done"
    /\ IF IsRejected(kind)
       THEN /\ outcome' = "InvalidInputKind"
            /\ UNCHANGED <<heap, coerced, labelled, labels, label_nb,
                           result>>
       ELSE LET ref == AsArrayRef(kind)
                h == [heap EXCEPT ![ref] = heap["arg"]]
            IN  \E l \in {Label(h[ref])} :
                /\ heap' = h
                /\ coerced' = (ref # "arg")
                /\ labelled' = TRUE
                /\ labels' = l.labels
                /\ label_nb' = l.label_nb
                /\ IF NoLabels(l.label_nb)
                   THEN /\ outcome' = "NoComponents"
                        /\ UNCHANGED result
                   ELSE /\ outcome' = "mask"
                        /\ result' =
                             IF l.label_nb = 1
                             THEN AsBool(h[ref])
                             ELSE LET label_count ==
                                        DiscardBackground(BinCount(l.labels))
                                      largest == ArgMax(label_count)
                                  IN  [d \in Cells |-> l.labels[d] = largest]
    /\ UNCHANGED <<op, kind, arg0, params, first>>

(* --------------------------- _peak_local_max --------------------------- *)
\* index space of an image
Pixels == 0 .. ImgLen - 1

Images == [Pixels -> -1 .. MaxVal]

\* num_peaks is <<>> for np.inf and <<n>> for the integer n
Inf == <<>>

\* the parameter values a caller passes; threshold_rel is the fraction
\* <<numerator, denominator>>: -1, 0, 1/2, 1
MinDistances == {1, 2}
ThresholdsAbs == {-1, 0, 1}
ThresholdsRel == {<<-1, 1>>, <<0, 1>>, <<1, 2>>, <<1, 1>>}
NumPeaks == {Inf, <<0>>, <<1>>, <<2>>}

ParamSets ==
    [min_distance : MinDistances,
     threshold_abs : ThresholdsAbs,
     threshold_rel : ThresholdsRel,
     num_peaks : NumPeaks]

\* numerator and denominator of threshold_rel
Num(p) == p.threshold_rel[1]
Den(p) == p.threshold_rel[2]

NeverFlat(image) == FALSE

\* np.all(image == image.flat[0])
IsFlat(image) == \A i \in Pixels : image[i] = image[0]

\* np.zeros_like(image, dtype=np.bool)
ZerosLike(image) == [i \in DOMAIN image |-> FALSE]

CopyAlias(ref) == ref

\* image.copy(): a new array, at a reference of its own
Copy(ref) == "copy"

\* mode='constant' with the default cval: 0 outside the image
Padded(image, j) == IF j \in Pixels THEN image[j] ELSE 0

\* ndimage.maximum_filter(image, size=size, mode='constant'): the window of
\* `size` cells centred on the cell
MaximumFilter(image, size) ==
    [i \in Pixels |->
        Max({Padded(image, j) :
                j \in (i - size \div 2) .. (i - size \div 2 + size - 1)})]

KeepAll(image, mask) == image

\* image *= mask (True is 1, False is 0)
Multiply(image, mask) ==
    [i \in Pixels |-> IF mask[i] THEN image[i] ELSE 0]

\* max(np.max(image.ravel()) * threshold_rel, threshold_abs), times the
\* denominator of threshold_rel
PeakThreshold(image, p) ==
    Max({Max({image[i] : i \in Pixels}) * Num(p), p.threshold_abs * Den(p)})

AtLeast(v, den, thr) == v * den >= thr

\* image > peak_threshold at a cell of value v (both sides times the
\* denominator of threshold_rel)
Exceeds(v, den, thr) == v * den > thr

\* np.argwhere: the selected coordinates in raster order
RECURSIVE ArgWhereFrom(_, _, _, _)
ArgWhereFrom(image, den, thr, i) ==
    IF i = ImgLen THEN <<>>
    ELSE (IF Exceeds(image[i], den, thr) THEN <<i>> ELSE <<>>)
         \o ArgWhereFrom(image, den, thr, i + 1)

ArgWhere(image, den, thr) == ArgWhereFrom(image, den, thr, 0)

\* coordinates.shape[0] > num_peaks
TooMany(count, num_peaks) == num_peaks # Inf /\ count > num_peaks[1]

\* np.argsort(intensities): the index orders that sort the intensities in
\* ascending order; the default sort is not stable, so equal intensities
\* come in any order
RECURSIVE ArgSortsOf(_, _)
ArgSortsOf(intensities, S) ==
    IF S = {} THEN {<<>>}
    ELSE UNION {{<<k>> \o rest : rest \in ArgSortsOf(intensities, S \ {k})} :
                 k \in {k \in S : \A j \in S :
                                    intensities[k] <= intensities[j]}}

ArgSort(intensities) == ArgSortsOf(intensities, DOMAIN intensities)

SameOrder(s) == s

\* [::-1]
Reversed(s) == [k \in 1 .. Len(s) |-> s[Len(s) + 1 - k]]

\* [:n] for n >= 0
Take(s, n) == [k \in 1 .. (IF n < Len(s) THEN n ELSE Len(s)) |-> s[k]]

\* out[nd_indices] = True
Scatter(out, coordinates) ==
    [i \in DOMAIN out |->
        out[i] \/ \E k \in 1 .. Len(coordinates) : coordinates[k] = i]

\* the body of _peak_local_max, run on the array at heap reference "arg" of
\* the heap h; each local assigned after the copy is bound once, in program
\* order (\E over the one value it is assigned)
PeakBody(h) ==
    LET out == ZerosLike(h["arg"])
    IN  IF IsFlat(h["arg"])
        THEN /\ heap' = h
             /\ result' = out
        ELSE LET ref == Copy("arg")
                 h1 == [h EXCEPT ![ref] = h["arg"]]
                 size == 2 * params.min_distance + 1
                 image_max == MaximumFilter(h1[ref], size)
                 mask == [i \in Pixels |-> h1[ref][i] = image_max[i]]
             IN  \E h2 \in {[h1 EXCEPT ![ref] = Multiply(h1[ref], mask)]} :
                 \E image \in {h2[ref]} :
                 \E peak_threshold \in {PeakThreshold(image, params)} :
                 \E coordinates \in
                       {ArgWhere(image, Den(params), peak_threshold)} :
                 /\ heap' = h2
                 /\ IF TooMany(Len(coordinates), params.num_peaks)
                    THEN LET intensities ==
                               [k \in 1 .. Len(coordinates) |->
                                   image[coordinates[k]]]
                         IN  \E idx \in ArgSort(intensities) :
                               LET idx_maxsort == Reversed(idx)
                                   kept == Take([k \in 1 .. Len(idx_maxsort) |->
                                                   coordinates[idx_maxsort[k]]],
                                                params.num_peaks[1])
                               IN  result' = Scatter(out, kept)
                    ELSE result' = Scatter(out, coordinates)

\* the whole of _peak_local_max, from the call to the return
PeakLocalMax ==
    /\ pc = "start"
    /\ op = "_peak_local_max"
    /\ pc' = "done"
    /\ outcome' = "mask"
    /\ PeakBody(heap)
    /\ UNCHANGED <<op, kind, arg0, params, coerced, labelled, labels,
                   label_nb, first>>

\* the mask cast back to the element type of the image
AsNumber(mask) == [i \in DOMAIN mask |-> IF mask[i] THEN 1 ELSE 0]

\* the caller runs _peak_local_max again, with the same parameters, on the
\* mask the first run returned
PeakLocalMaxAgain ==
    /\ pc = "done"
    /\ op = "_peak_local_max"
    /\ pc' = "again"
    /\ first' = result
    /\ arg0' = AsNumber(result)
    /\ outcome' = "mask"
    /\ PeakBody([r \in {"arg", "copy"} |->
                    IF r = "arg" THEN AsNumber(result) ELSE None])
    /\ UNCHANGED <<op, kind, params, coerced, labelled, labels, label_nb>>

(* ------------------- properties: connected components ------------------ *)
IsLargest == op = "largest_connected_component"
IsPeaks == op = "_peak_local_max"
Returned == pc \in {"done", "again"}

TrueCells(m) == {d \in DOMAIN m : m[d]}
NonZero(a) == {d \in DOMAIN a : a[d] # 0}

\* cells at distance 1 along exactly one axis
FaceAdjacent(a, b) ==
    \/ a[1] = b[1] /\ Abs(a[2] - b[2]) = 1
    \/ a[2] = b[2] /\ Abs(a[1] - b[1]) = 1

\* cells that differ by at most 1 in every axis
Touching(a, b) == a # b /\ Abs(a[1] - b[1]) <= 1 /\ Abs(a[2] - b[2]) <= 1

RECURSIVE FaceRegionOf(_, _)
FaceRegionOf(a, S) ==
    LET N == S \cup {d \in NonZero(a) : \E s \in S : FaceAdjacent(s, d)}
    IN  IF N = S THEN S ELSE FaceRegionOf(a, N)

FaceRegion(a, c) == FaceRegionOf(a, {c})

RECURSIVE TouchRegionOf(_, _)
TouchRegionOf(a, S) ==
    LET N == S \cup {d \in NonZero(a) : \E s \in S : Touching(s, d)}
    IN  IF N = S THEN S ELSE TouchRegionOf(a, N)

\* the connected components of the caller's grid under face adjacency
Components == {FaceRegion(arg0, c) : c \in NonZero(arg0)}

Sizes == {Cardinality(S) : S \in Components}

\* C1 as stated: two true cells that differ by at most 1 in every axis
\* (diagonal neighbours included) always get the same label, and a grid whose
\* true cells are linked only diagonally is returned whole.
C1_FullConnectivity ==
    (IsLargest /\ pc = "done" /\ labelled) =>
        /\ \A a, b \in NonZero(arg0) : Touching(a, b) => labels[a] = labels[b]
        /\ \A c \in NonZero(arg0) :
              TouchRegionOf(arg0, {c}) = NonZero(arg0) =>
                 outcome = "mask" /\ result = AsBool(arg0)

\* C1 amended: the labelling uses face connectivity only.  Two true cells
\* get the same label exactly when a chain of face-adjacent true cells links
\* them, so diagonal-only neighbours are in different components, and a grid
\* whose true cells are not all face-linked is not returned whole.
C1_FaceConnectivity ==
    (IsLargest /\ pc = "done" /\ labelled) =>
        \A a \in NonZero(arg0) :
           LET R == FaceRegion(arg0, a)
           IN  \A b \in NonZero(arg0) :
                  /\ labels[a] = labels[b] <=> b \in R
                  /\ (outcome = "mask" /\ b \notin R) =>
                        ~ (result[a] /\ result[b])

C1_Witness ==
    /\ IsLargest /\ pc = "done" /\ outcome = "mask"
    /\ \E a, b \in NonZero(arg0) :
          /\ Touching(a, b)
          /\ TouchRegionOf(arg0, {a}) = NonZero(arg0)
          /\ labels[a] # labels[b]
          /\ result[a] /\ ~ result[b]

\* C2: on a grid with a true cell the output's true cells are exactly one
\* connected component of maximal size; one component: the output is the
\* input cast to boolean; two or more components of distinct sizes: the
\* count is the largest size and the output a strict subset of the input.
C2_LargestSelected ==
    (IsLargest /\ pc = "done" /\ labelled /\ NonZero(arg0) # {}) =>
        LET comps == Components
            sizes == {Cardinality(S) : S \in comps}
            T == TrueCells(result)
        IN  /\ outcome = "mask"
            /\ T \in comps
            /\ \A S \in comps : Cardinality(S) <= Cardinality(T)
            /\ Cardinality(comps) = 1 => result = AsBool(arg0)
            /\ (Cardinality(comps) >= 2 /\
                Cardinality(sizes) = Cardinality(comps)) =>
                  /\ Cardinality(T) = Max(sizes)
                  /\ T \subseteq NonZero(arg0)
                  /\ T # NonZero(arg0)

C2_Witness ==
    /\ IsLargest /\ pc = "done" /\ outcome = "mask"
    /\ Cardinality(Components) >= 2
    /\ Cardinality(Sizes) = Cardinality(Components)
    /\ labels[Unravel(0)] = 1
    /\ ~ result[Unravel(0)]
    /\ 2 * Cardinality(TrueCells(result)) < Cardinality(Cells)

\* C3: a grid without a true cell always ends in NoComponents and returns
\* no mask; a grid with a true cell never ends in NoComponents.
C3_NoComponents ==
    (IsLargest /\ pc = "done") =>
        /\ (labelled /\ NonZero(arg0) = {}) =>
              outcome = "NoComponents" /\ result = None
        /\ NonZero(arg0) # {} => outcome # "NoComponents"

C3_Witness ==
    /\ IsLargest /\ pc = "done" /\ kind = "ndarray"
    /\ NonZero(arg0) = {}
    /\ outcome = "NoComponents"

\* C4 as stated: every input that is not already a plain array (image
\* handle, path, nested list, masked array) is rejected with
\* InvalidInputKind before labelling and without being coerced.
C4_RejectsAllNonArrays ==
    (IsLargest /\ pc = "done" /\ kind # "ndarray") =>
        outcome = "InvalidInputKind" /\ ~ labelled /\ ~ coerced

\* C4 amended: only image handles (objects with get_data) and text paths
\* are rejected with InvalidInputKind, before labelling and uncoerced; any
\* other object (nested list, masked array) is converted to an array and
\* labelled like a plain array.
C4_RejectsImagesAndPaths ==
    (IsLargest /\ pc = "done") =>
        /\ kind \in {"niimg", "str"} =>
              /\ outcome = "InvalidInputKind"
              /\ ~ labelled /\ ~ coerced /\ result = None
        /\ kind \in {"list", "masked"} =>
              /\ outcome # "InvalidInputKind"
              /\ labelled /\ coerced
        /\ kind = "ndarray" =>
              /\ outcome # "InvalidInputKind"
              /\ labelled /\ ~ coerced

C4_Witness ==
    /\ IsLargest /\ pc = "done" /\ kind = "str"
    /\ NonZero(arg0) # {}
    /\ outcome = "InvalidInputKind" /\ ~ labelled

(* ----------------------- properties: peak detector --------------------- *)
\* maximum over the window of radius min_distance, 0 outside the grid
WindowMax(i) ==
    Max({IF j \in Pixels THEN arg0[j] ELSE 0 :
            j \in (i - params.min_distance) .. (i + params.min_distance)})

IsCandidate(i) == arg0[i] = WindowMax(i)

MaskedValue(i) == IF IsCandidate(i) THEN arg0[i] ELSE 0

\* the grid after the candidate step
MaskedGrid == [i \in Pixels |-> MaskedValue(i)]

\* threshold_rel = RelNum / RelDen
RelNum == params.threshold_rel[1]
RelDen == params.threshold_rel[2]

\* peak_threshold times RelDen
ThresholdOf(masked) ==
    Max({Max({masked[i] : i \in Pixels}) * RelNum,
         params.threshold_abs * RelDen})

\* the cells whose masked value is strictly above the threshold
SurvivorsOf(masked, thr) == {i \in Pixels : masked[i] * RelDen > thr}

ScaledThreshold == ThresholdOf(MaskedGrid)

Survivors == SurvivorsOf(MaskedGrid, ScaledThreshold)

\* every cell of the caller's grid holds the same value
AllSame == \A i, j \in Pixels : arg0[i] = arg0[j]

\* C5: on a grid whose cells all hold the same value the result is the
\* all-false mask, for every choice of the parameters, and nothing is raised.
C5_FlatGivesNoPeaks ==
    (IsPeaks /\ Returned /\ AllSame) =>
        outcome = "mask" /\ TrueCells(result) = {} /\ DOMAIN result = Pixels

C5_Witness ==
    /\ IsPeaks /\ pc = "done"
    /\ \A i \in Pixels : arg0[i] = 1
    /\ params.threshold_abs < 0 /\ RelNum < 0
    /\ TrueCells(result) = {}

\* C6: on a non-flat grid with num_peaks unbounded a cell is true in the
\* output iff its masked value is strictly greater than peak_threshold.
C6_StrictThreshold ==
    (IsPeaks /\ Returned /\ ~ AllSame /\ params.num_peaks = Inf) =>
        \A masked \in {MaskedGrid} :
           \A thr \in {ThresholdOf(masked)} :
              \A i \in Pixels : result[i] <=> masked[i] * RelDen > thr

C6_Witness ==
    /\ IsPeaks /\ pc = "done" /\ ~ AllSame /\ params.num_peaks = Inf
    /\ \E i, j \in Pixels :
          /\ IsCandidate(i) /\ arg0[i] > 0
          /\ MaskedValue(i) * RelDen = ScaledThreshold
          /\ ~ result[i]
          /\ result[j]

\* C7: with more survivors than a finite num_peaks the output has exactly
\* num_peaks true cells, all survivors, none less intense than a dropped
\* survivor; with at most num_peaks survivors all of them are kept.
C7_TopPeaksKept ==
    (IsPeaks /\ Returned /\ ~ AllSame /\ params.num_peaks # Inf) =>
        \A masked \in {MaskedGrid} :
           \A S \in {SurvivorsOf(masked, ThresholdOf(masked))} :
              LET n == params.num_peaks[1]
                  T == TrueCells(result)
              IN  /\ Cardinality(S) > n =>
                       /\ Cardinality(T) = n
                       /\ T \subseteq S
                       /\ \A k \in T : \A d \in S \ T :
                             masked[k] >= masked[d]
                  /\ Cardinality(S) <= n => T = S

C7_Witness ==
    /\ IsPeaks /\ pc = "done" /\ ~ AllSame
    /\ params.num_peaks = <<1>>
    /\ Cardinality(Survivors) > 1
    /\ \E k \in TrueCells(result) : \E d \in Survivors :
          ~ result[d] /\ arg0[k] > arg0[d] /\ arg0[d] > 0

\* C8 as stated: for every grid and every parameter choice, a second run
\* on the first run's mask (true = 1, false = 0) returns the same mask.
C8_Idempotent == pc = "again" => result = first

\* C8 amended: the second run returns the same mask whenever the larger of
\* threshold_abs and threshold_rel is at least 0 and below 1.
C8_IdempotentBelowOne ==
    LET t == Max({RelNum, params.threshold_abs * RelDen})
    IN  (pc = "again" /\ 0 <= t /\ t < RelDen) => result = first

C8_Witness ==
    /\ pc = "again"
    /\ params.threshold_abs = 0 /\ params.threshold_rel = <<1, 2>>
    /\ Cardinality(TrueCells(first)) >= 2
    /\ result = first

\* C9: after any call, on every path, the caller's array holds exactly the
\* values it held before the call.
C9_InputUnchanged == Returned => heap["arg"] = arg0

C9_Witness ==
    /\ IsPeaks /\ pc = "done"
    /\ heap["copy"] # None
    /\ heap["copy"] # arg0
    /\ heap["arg"] = arg0
    /\ TrueCells(result) # {}

\* C10: every cell marked true holds the maximum of the window of radius
\* min_distance around it (0 outside the grid), whatever the thresholds and
\* num_peaks.
C10_PeaksAreLocalMaxima ==
    (IsPeaks /\ Returned) =>
        \A i \in Pixels : result[i] => IsCandidate(i)

(* --------------------------- specification ----------------------------- *)
Start ==
    /\ pc = "start"
    /\ heap = [r \in {"arg", "copy"} |-> IF r = "arg" THEN arg0 ELSE None]
    /\ coerced = FALSE
    /\ labelled = FALSE
    /\ labels = None
    /\ label_nb = 0
    /\ outcome = "none"
    /\ result = None
    /\ first = None

\* a caller about to run largest_connected_component on some object
InitLargest ==
    /\ op = "largest_connected_component"
    /\ kind \in Kinds
    /\ arg0 \in Volumes
    /\ params = None
    /\ Start

\* a caller about to run _peak_local_max on some image
InitPeaks ==
    /\ op = "_peak_local_max"
    /\ kind = "ndarray"
    /\ arg0 \in Images
    /\ params \in ParamSets
    /\ Start

Init == InitLargest \/ InitPeaks

NextLargest ==
    \/ LargestConnectedComponent

NextPeaks ==
    \/ PeakLocalMax
    \/ PeakLocalMaxAgain

Next ==
    \/ LargestConnectedComponent
    \/ PeakLocalMax
    \/ PeakLocalMaxAgain

\* both functions
Spec == Init /\ [][Next]_vars

\* largest_connected_component alone
SpecLargest == InitLargest /\ [][NextLargest]_vars

\* _peak_local_max alone
SpecPeaks == InitPeaks /\ [][NextPeaks]_vars

====
